---- MODULE Spec2Model ----
(***************************************************************************)
(* Model of utoipa-gen/src/path/response.rs: the response attribute        *)
(* parsers, the status resolver, the occurrence merge, the derive shape    *)
(* dispatch and the builder-call emitter.                                  *)
(***************************************************************************)
EXTENDS Integers, Sequences, FiniteSets, TLC

VARIABLES
    stInput,    \* ResponseStatus::parse: the status token under the cursor
    stResult,   \* ResponseStatus::parse: syn::Result<ResponseStatus>, or pending
    mgLevel,    \* from_attributes: which DeriveResponseValue impl is folded
    mgAttrs,    \* from_attributes: the attributes iterated so far
    mgAcc,      \* from_attributes: the accumulator of Iterator::reduce
    parser,     \* which impl Parse is running on the occurrence
    input,      \* ParseStream: the token under the cursor
    fuel,       \* ParseStream: how many more tokens the occurrence may hold
    pc,         \* position in parse, then in Responses::to_tokens
    response,   \* the `response` local of parse, then the parsed value
    error,      \* the syn::Error returned, "" when none
    parsedKeys, \* the attribute names matched so far in the occurrence
    tokens,     \* the TokenStream2 extended by to_tokens
    item,       \* DeriveResponse: the declaration under #[derive(ToResponse)]
    derived,    \* DeriveResponse::to_tokens: the descriptor, or the abort
    implTokens  \* DeriveResponse::to_tokens: the tokens it extends

statusVars == <<stInput, stResult>>
mergeVars == <<mgLevel, mgAttrs, mgAcc>>
parseVars == <<parser, input, fuel, pc, response, error, parsedKeys, tokens>>
deriveVars == <<item, derived, implTokens>>
vars == <<statusVars, mergeVars, parseVars, deriveVars>>

(***************************************************************************)
(* Option<T>, syn::Result<T>                                               *)
(***************************************************************************)
None == [some |-> FALSE]
Some(v) == [some |-> TRUE, val |-> v]

Ok(v) == [ok |-> TRUE, val |-> v]
Err(msg) == [ok |-> FALSE, err |-> msg]
Pending == [pending |-> TRUE]

(***************************************************************************)
(* Bounds of the model                                                     *)
(***************************************************************************)
MaxSegments == 2
MaxAttrs == 2
MaxTokens == 5
MaxVariants == 3
MaxDeclAttrs == 2

(***************************************************************************)
(* Status-code resolver: impl Parse for ResponseStatus                     *)
(***************************************************************************)
\* The default ResponseStatus: an empty token stream.
EmptyStatus == ""

VALID_STATUS_RANGES == <<"default", "1XX", "2XX", "3XX", "4XX", "5XX">>

\* [&str]::join
RECURSIVE Join(_, _)
Join(strs, sep) ==
    IF Len(strs) = 0 THEN ""
    ELSE IF Len(strs) = 1 THEN strs[1]
    ELSE strs[1] \o sep \o Join(Tail(strs), sep)

\* [&str]::contains
Contains(strs, s) == \E i \in 1..Len(strs) : strs[i] = s

\* The (code, name) table of super::status.
STATUS_CODES == <<
    <<100, "CONTINUE">>,
    <<200, "OK">>,
    <<201, "CREATED">>,
    <<204, "NO_CONTENT">>,
    <<400, "BAD_REQUEST">>,
    <<404, "NOT_FOUND">>,
    <<500, "INTERNAL_SERVER_ERROR">> >>

parse_lit_int(tok) == Ok(tok.text)

parse_lit_str_status_range_NoCheck(tok) == Ok(tok.text)

parse_lit_str_status_range(tok) ==
    IF ~Contains(VALID_STATUS_RANGES, tok.text)
    THEN Err("Invalid status range, expected one of: "
             \o Join(VALID_STATUS_RANGES, ", "))
    ELSE Ok(tok.text)

\* Error messages are written without the backquotes of the source strings.
\* Iterator::find_map over STATUS_CODES: the first entry whose name is ident.
RECURSIVE FindStatusCode(_, _)
FindStatusCode(table, ident) ==
    IF Len(table) = 0 THEN None
    ELSE IF ident = table[1][2] THEN Some(ToString(table[1][1]))
    ELSE FindStatusCode(Tail(table), ident)

parse_http_status_code_FirstSegment(tok) ==
    LET segment == tok.segments[1]
        found == FindStatusCode(STATUS_CODES, segment)
    IN  IF found.some THEN Ok(found.val)
        ELSE Err("No associate item " \o segment
                 \o " found for struct http::StatusCode")

parse_http_status_code(tok) ==
    LET last_segment == tok.segments[Len(tok.segments)]
        found == FindStatusCode(STATUS_CODES, last_segment)
    IN  IF found.some THEN Ok(found.val)
        ELSE Err("No associate item " \o last_segment
                 \o " found for struct http::StatusCode")

\* lookahead1 dispatch on the kind of the next token
ResponseStatusParse(tok) ==
    IF tok.kind = "LitInt" THEN parse_lit_int(tok)
    ELSE IF tok.kind = "LitStr" THEN parse_lit_str_status_range(tok)
    ELSE IF tok.kind = "Ident" THEN parse_http_status_code(tok)
    ELSE Err("expected one of: integer literal, string literal, identifier")

\* Token streams handed to the resolver
LitIntTexts == {"100", "200", "201", "404", "500", "599"}
LitStrTexts == {"default", "1XX", "2XX", "3XX", "4XX", "5XX",
                "Default", "DEFAULT", "2xx", "6XX", "XX", "200", "OK",
                "NOT_FOUND", "", " 2XX", "2XX "}
SegmentNames == {"StatusCode", "http", "OK", "NOT_FOUND", "CREATED",
                 "BOGUS", "not_found", "Ok", "default", "X2XX"}
Paths == UNION {[1..n -> SegmentNames] : n \in 1..MaxSegments}

StatusTok(kind, text, segments) ==
    [kind |-> kind, text |-> text, segments |-> segments]

StatusTokens ==
    {StatusTok("LitInt", t, <<>>) : t \in LitIntTexts}
    \cup {StatusTok("LitStr", t, <<>>) : t \in LitStrTexts}
    \cup {StatusTok("Ident", "", p) : p \in Paths}
    \cup {StatusTok("Punct", "", <<>>)}

\* The cursor when the resolver is not under study.
IdleStatusTok == StatusTok("Punct", "", <<>>)

ParseResponseStatus ==
    /\ stResult = Pending
    /\ stResult' = ResponseStatusParse(stInput)
    /\ UNCHANGED <<stInput, mergeVars, parseVars, deriveVars>>

(***************************************************************************)
(* Occurrence merge: DeriveResponseValue::from_attributes and the two      *)
(* merge_from implementations                                              *)
(***************************************************************************)
\* struct DeriveToResponseValue; DeriveIntoResponsesValue adds status.
\* example and examples carry the key identifier beside the value.
DeriveValue(status, content_type, headers, description, example, examples) ==
    [status |-> status, content_type |-> content_type, headers |-> headers,
     description |-> description, example |-> example, examples |-> examples]

DeriveValueDefault == DeriveValue(EmptyStatus, None, <<>>, "", None, None)

ToResponseMergeFrom_NonEmptyContentType(self, other) ==
    LET s1 == IF other.content_type.some /\ Len(other.content_type.val) > 0
              THEN [self EXCEPT !.content_type = other.content_type] ELSE self
        s2 == IF Len(other.headers) # 0
              THEN [s1 EXCEPT !.headers = other.headers] ELSE s1
        s3 == IF other.description # ""
              THEN [s2 EXCEPT !.description = other.description] ELSE s2
        s4 == IF other.example.some
              THEN [s3 EXCEPT !.example = other.example] ELSE s3
        s5 == IF other.examples.some
              THEN [s4 EXCEPT !.examples = other.examples] ELSE s4
    IN  s5

ToResponseMergeFrom_AlwaysDescription(self, other) ==
    LET s1 == IF other.content_type.some
              THEN [self EXCEPT !.content_type = other.content_type] ELSE self
        s2 == IF Len(other.headers) # 0
              THEN [s1 EXCEPT !.headers = other.headers] ELSE s1
        s3 == [s2 EXCEPT !.description = other.description]
        s4 == IF other.example.some
              THEN [s3 EXCEPT !.example = other.example] ELSE s3
        s5 == IF other.examples.some
              THEN [s4 EXCEPT !.examples = other.examples] ELSE s4
    IN  s5

\* DeriveToResponseValue::merge_from
ToResponseMergeFrom(self, other) ==
    LET s1 == IF other.content_type.some
              THEN [self EXCEPT !.content_type = other.content_type] ELSE self
        s2 == IF Len(other.headers) # 0
              THEN [s1 EXCEPT !.headers = other.headers] ELSE s1
        s3 == IF other.description # ""
              THEN [s2 EXCEPT !.description = other.description] ELSE s2
        s4 == IF other.example.some
              THEN [s3 EXCEPT !.example = other.example] ELSE s3
        s5 == IF other.examples.some
              THEN [s4 EXCEPT !.examples = other.examples] ELSE s4
    IN  s5

IntoResponsesMergeFrom_KeepStatus(self, other) ==
    LET s1 == IF other.content_type.some
              THEN [self EXCEPT !.content_type = other.content_type] ELSE self
        s2 == IF Len(other.headers) # 0
              THEN [s1 EXCEPT !.headers = other.headers] ELSE s1
        s3 == IF other.description # ""
              THEN [s2 EXCEPT !.description = other.description] ELSE s2
        s4 == IF other.example.some
              THEN [s3 EXCEPT !.example = other.example] ELSE s3
        s5 == IF other.examples.some
              THEN [s4 EXCEPT !.examples = other.examples] ELSE s4
    IN  s5

\* DeriveIntoResponsesValue::merge_from
IntoResponsesMergeFrom(self, other) ==
    LET s0 == [self EXCEPT !.status = other.status]
        s1 == IF other.content_type.some
              THEN [s0 EXCEPT !.content_type = other.content_type] ELSE s0
        s2 == IF Len(other.headers) # 0
              THEN [s1 EXCEPT !.headers = other.headers] ELSE s1
        s3 == IF other.description # ""
              THEN [s2 EXCEPT !.description = other.description] ELSE s2
        s4 == IF other.example.some
              THEN [s3 EXCEPT !.example = other.example] ELSE s3
        s5 == IF other.examples.some
              THEN [s4 EXCEPT !.examples = other.examples] ELSE s4
    IN  s5

\* DeriveResponse::parse_derive_response_value / from_attributes: the reduce
\* over the parsed values of the response attributes, None when there is none.
RECURSIVE FoldToResponse(_, _)
FoldToResponse(acc, rest) ==
    IF Len(rest) = 0 THEN acc
    ELSE FoldToResponse(ToResponseMergeFrom(acc, Head(rest)), Tail(rest))

parse_derive_response_value(values) ==
    IF Len(values) = 0 THEN None
    ELSE Some(FoldToResponse(Head(values), Tail(values)))

\* An attribute of the declaration: #[response(...)] with its parsed value, or
\* an attribute of another path, which the filter of from_attributes drops.
ResponseAttr(value) == [path |-> "response", value |-> value]
OtherAttr == [path |-> "doc", value |-> DeriveValueDefault]

\* Values written in the n-th attribute carry n, so that the occurrence a
\* merged field comes from can be told.
Tag(s, n) == s \o ToString(n)

\* What DeriveToResponseValue::parse returns for the n-th attribute.
ToResponseValues(n) ==
    {DeriveValue(EmptyStatus, ct, hs, d, e, es) :
        ct \in {None, Some(<<>>), Some(<<Tag("text/ct", n)>>)},
        hs \in {<<>>, <<Tag("x-h", n)>>},
        d \in {"", Tag("d", n)},
        e \in {None, Some(<<Tag("e", n), "example">>)},
        es \in {None, Some(<<<<Tag("x", n)>>, "examples">>)}}

\* What DeriveIntoResponsesValue::parse returns for the n-th attribute: the
\* status is never empty there.
IntoResponsesValues(n) ==
    {[v EXCEPT !.status = Tag("20", n)] : v \in ToResponseValues(n)}

\* filter: an attribute whose path is not `response` is dropped
SkipAttribute ==
    /\ Len(mgAttrs) < MaxAttrs
    /\ mgAttrs' = Append(mgAttrs, OtherAttr)
    /\ UNCHANGED <<mgLevel, mgAcc, statusVars, parseVars, deriveVars>>

\* reduce: the first item becomes the accumulator
ReduceFirst ==
    /\ Len(mgAttrs) < MaxAttrs
    /\ ~mgAcc.some
    /\ \E value \in IF mgLevel = "ToResponse"
                    THEN ToResponseValues(Len(mgAttrs) + 1)
                    ELSE IntoResponsesValues(Len(mgAttrs) + 1) :
          /\ mgAttrs' = Append(mgAttrs, ResponseAttr(value))
          /\ mgAcc' = Some(value)
    /\ UNCHANGED <<mgLevel, statusVars, parseVars, deriveVars>>

\* reduce: acc.merge_from(item), DeriveToResponseValue
ReduceToResponse ==
    /\ Len(mgAttrs) < MaxAttrs
    /\ mgAcc.some
    /\ mgLevel = "ToResponse"
    /\ \E value \in ToResponseValues(Len(mgAttrs) + 1) :
          /\ mgAttrs' = Append(mgAttrs, ResponseAttr(value))
          /\ mgAcc' = Some(ToResponseMergeFrom(mgAcc.val, value))
    /\ UNCHANGED <<mgLevel, statusVars, parseVars, deriveVars>>

\* reduce: acc.merge_from(item), DeriveIntoResponsesValue
ReduceIntoResponses ==
    /\ Len(mgAttrs) < MaxAttrs
    /\ mgAcc.some
    /\ mgLevel = "IntoResponses"
    /\ \E value \in IntoResponsesValues(Len(mgAttrs) + 1) :
          /\ mgAttrs' = Append(mgAttrs, ResponseAttr(value))
          /\ mgAcc' = Some(IntoResponsesMergeFrom(mgAcc.val, value))
    /\ UNCHANGED <<mgLevel, statusVars, parseVars, deriveVars>>

(***************************************************************************)
(* Descriptor data: ResponseTuple, ResponseValue, PathType, Content, Header *)
(***************************************************************************)
InlineType(ty, is_inline) == [ty |-> ty, is_inline |-> is_inline]

\* enum PathType: Ref(name), MediaType(InlineType), InlineSchema(schema, ty)
PathTypeRef(name) == [kind |-> "Ref", ty |-> name, is_inline |-> FALSE]
PathTypeMediaType(ty, is_inline) ==
    [kind |-> "MediaType", ty |-> ty, is_inline |-> is_inline]
PathTypeInlineSchema(schema, ty) ==
    [kind |-> "InlineSchema", schema |-> schema, ty |-> ty, is_inline |-> TRUE]

\* struct Content(content_type, body, example, examples)
Content(content_type, body, example, examples) ==
    [content_type |-> content_type, body |-> body,
     example |-> example, examples |-> examples]

\* struct Header
Header(name, value_type, description) ==
    [name |-> name, value_type |-> value_type, description |-> description]

\* ResponseValue::default
ResponseValueDefault ==
    [description |-> "", response_type |-> None, content_type |-> None,
     headers |-> <<>>, example |-> None, examples |-> None, content |-> <<>>]

\* enum ResponseTupleInner
ValueInner(value) == [kind |-> "Value", value |-> value]
RefInner(ty) == [kind |-> "Ref", ty |-> ty]

\* ResponseTuple::default
ResponseTupleDefault == [status_code |-> EmptyStatus, inner |-> None]

RESPONSE_INCOMPATIBLE_ATTRIBUTES_MSG ==
    "The response attribute may only be used in conjunction with the status attribute"

as_value_Overwrite(resp) ==
    IF resp.inner.some /\ resp.inner.val.kind = "Value" THEN Ok(resp)
    ELSE Ok([resp EXCEPT !.inner = Some(ValueInner(ResponseValueDefault))])

\* ResponseTuple::as_value: the descriptor with inner made a Value when it was
\* unset, or the conflict error when inner is a Ref.
as_value(resp) ==
    LET r == IF ~resp.inner.some
             THEN [resp EXCEPT !.inner = Some(ValueInner(ResponseValueDefault))]
             ELSE resp
    IN  IF r.inner.val.kind = "Value" THEN Ok(r)
        ELSE Err(RESPONSE_INCOMPATIBLE_ATTRIBUTES_MSG)

set_ref_type_Overwrite(resp, ty) ==
    Ok([resp EXCEPT !.inner = Some(RefInner(ty))])

\* ResponseTuple::set_ref_type
set_ref_type(resp, ty) ==
    IF ~resp.inner.some THEN Ok([resp EXCEPT !.inner = Some(RefInner(ty))])
    ELSE IF resp.inner.val.kind = "Ref"
    THEN Ok([resp EXCEPT !.inner = Some(RefInner(ty))])
    ELSE Err(RESPONSE_INCOMPATIBLE_ATTRIBUTES_MSG)

(***************************************************************************)
(* The token stream of one occurrence                                      *)
(***************************************************************************)
\* An attribute is its identifier with the tokens of its value; the value is
\* what the value parser returns for them, or malformed.
Eof == [kind |-> "eof"]
Comma == [kind |-> "comma"]
Punct == [kind |-> "punct"]
GoodVal(v) == [bad |-> FALSE, v |-> v]
BadVal == [bad |-> TRUE]
Attr(key, val) == [kind |-> "attr", key |-> key, val |-> val]

StatusVals == {StatusTok("LitInt", "200", <<>>),
               StatusTok("LitStr", "4XX", <<>>),
               StatusTok("LitStr", "2xx", <<>>),
               StatusTok("Ident", "", <<"StatusCode", "NOT_FOUND">>)}
DescriptionVals == {"", "ok"}
BodyVals == {PathTypeRef("Pet"), PathTypeMediaType("String", FALSE),
             PathTypeMediaType("User", FALSE)}
ContentTypeVals == {<<>>, <<"text/plain">>, <<"application/json", "text/xml">>}
HeadersVals ==
    {<<Header("x-token", Some(InlineType("String", FALSE)), Some("csrf"))>>,
     <<Header("x-token", Some(InlineType("String", FALSE)), Some("csrf")),
       Header("x-other", None, None)>>}
ExampleVals == {"ex"}
ExamplesVals == {<<[name |-> "Example1"]>>}
ContentVals ==
    {<<Content("text/plain", PathTypeMediaType("String", FALSE), None, None)>>,
     <<Content("text/plain", PathTypeMediaType("String", FALSE), None, None),
       Content("application/json", PathTypeMediaType("User", FALSE),
               Some("ex"), None)>>}
ResponseVals == {InlineType("Pet", FALSE), InlineType("Pet", TRUE)}

ValueKeys == {"description", "body", "content_type", "headers", "example",
              "examples", "content"}
AttrKeys == ValueKeys \cup {"status", "response", "inline", "bogus"}

\* t is a token an occurrence can hold
TokenIs(t) ==
    \/ t = Comma
    \/ t = Punct
    \/ \E k \in AttrKeys : t = Attr(k, BadVal)
    \/ \E v \in StatusVals : t = Attr("status", GoodVal(v))
    \/ \E v \in DescriptionVals : t = Attr("description", GoodVal(v))
    \/ \E v \in BodyVals : t = Attr("body", GoodVal(v))
    \/ \E v \in ContentTypeVals : t = Attr("content_type", GoodVal(v))
    \/ \E v \in HeadersVals : t = Attr("headers", GoodVal(v))
    \/ \E v \in ExampleVals : t = Attr("example", GoodVal(v))
    \/ \E v \in ExamplesVals : t = Attr("examples", GoodVal(v))
    \/ \E v \in ContentVals : t = Attr("content", GoodVal(v))
    \/ \E v \in ResponseVals : t = Attr("response", GoodVal(v))

\* The cursor moves past the token under it: the stream ends, or holds one of
\* the tokens above.
Advance ==
    \/ /\ input' = Eof
       /\ fuel' = fuel
    \/ /\ fuel > 0
       /\ fuel' = fuel - 1
       /\ TokenIs(input')

(***************************************************************************)
(* impl Parse for ResponseTuple                                            *)
(***************************************************************************)
\* The keys the message of the `_` arm lists
TupleExpectedKeys ==
    <<"status", "description", "body", "content_type", "headers", "example",
      "examples", "response">>

EXPECTED_ATTRIBUTE_MESSAGE ==
    "unexpected attribute, expected any of: " \o Join(TupleExpectedKeys, ", ")

BAD_VALUE_MESSAGE == "unexpected token in attribute value"
EXPECTED_IDENT_MESSAGE == "expected identifier"
EXPECTED_COMMA_MESSAGE == "expected ,"

\* The right-hand side of an arm is evaluated before as_value is called.
TupleDescriptionArm(resp, val) ==
    IF val.bad THEN Err(BAD_VALUE_MESSAGE)
    ELSE LET r == as_value(resp)
         IN  IF ~r.ok THEN r
             ELSE Ok([r.val EXCEPT !.inner.val.value.description = val.v])

TupleBodyArm(resp, val) ==
    IF val.bad THEN Err(BAD_VALUE_MESSAGE)
    ELSE LET r == as_value(resp)
         IN  IF ~r.ok THEN r
             ELSE Ok([r.val EXCEPT !.inner.val.value.response_type = Some(val.v)])

TupleContentTypeArm(resp, val) ==
    IF val.bad THEN Err(BAD_VALUE_MESSAGE)
    ELSE LET r == as_value(resp)
         IN  IF ~r.ok THEN r
             ELSE Ok([r.val EXCEPT !.inner.val.value.content_type = Some(val.v)])

TupleHeadersArm(resp, val) ==
    IF val.bad THEN Err(BAD_VALUE_MESSAGE)
    ELSE LET r == as_value(resp)
         IN  IF ~r.ok THEN r
             ELSE Ok([r.val EXCEPT !.inner.val.value.headers = val.v])

TupleExampleArm(resp, val) ==
    IF val.bad THEN Err(BAD_VALUE_MESSAGE)
    ELSE LET r == as_value(resp)
         IN  IF ~r.ok THEN r
             ELSE Ok([r.val EXCEPT !.inner.val.value.example = Some(val.v)])

TupleExamplesArm(resp, val) ==
    IF val.bad THEN Err(BAD_VALUE_MESSAGE)
    ELSE LET r == as_value(resp)
         IN  IF ~r.ok THEN r
             ELSE Ok([r.val EXCEPT !.inner.val.value.examples = Some(val.v)])

TupleContentArm(resp, val) ==
    IF val.bad THEN Err(BAD_VALUE_MESSAGE)
    ELSE LET r == as_value(resp)
         IN  IF ~r.ok THEN r
             ELSE Ok([r.val EXCEPT !.inner.val.value.content = val.v])

\* The argument of set_ref_type is parsed before the call.
TupleResponseArm(resp, val) ==
    IF val.bad THEN Err(BAD_VALUE_MESSAGE)
    ELSE set_ref_type(resp, val.v)

TupleStatusArm(resp, val) ==
    IF val.bad THEN Err(BAD_VALUE_MESSAGE)
    ELSE LET status == ResponseStatusParse(val.v)
         IN  IF ~status.ok THEN status
             ELSE Ok([resp EXCEPT !.status_code = status.val])

\* match attribute_name { ... }
TupleMatch(resp, key, val) ==
    CASE key = "status" -> TupleStatusArm(resp, val)
      [] key = "description" -> TupleDescriptionArm(resp, val)
      [] key = "body" -> TupleBodyArm(resp, val)
      [] key = "content_type" -> TupleContentTypeArm(resp, val)
      [] key = "headers" -> TupleHeadersArm(resp, val)
      [] key = "example" -> TupleExampleArm(resp, val)
      [] key = "examples" -> TupleExamplesArm(resp, val)
      [] key = "content" -> TupleContentArm(resp, val)
      [] key = "response" -> TupleResponseArm(resp, val)
      [] OTHER -> Err(EXPECTED_ATTRIBUTE_MESSAGE)

Fail_Continue(msg) ==
    /\ pc' = "sep"
    /\ error' = msg
    /\ UNCHANGED <<parser, input, fuel, response, tokens>>

\* A parse function returns Err(msg).
Fail(msg) ==
    /\ pc' = "err"
    /\ error' = msg
    /\ UNCHANGED <<parser, input, fuel, response, tokens>>

\* while !input.is_empty(): the identifier is not one
TupleIdentError ==
    /\ parser = "ResponseTuple"
    /\ pc = "loop"
    /\ input.kind \in {"comma", "punct"}
    /\ Fail(EXPECTED_ATTRIBUTE_MESSAGE \o ", " \o EXPECTED_IDENT_MESSAGE)
    /\ UNCHANGED <<parsedKeys, statusVars, mergeVars, deriveVars>>

\* while !input.is_empty(): one identifier and the arm it selects
TupleAttribute ==
    /\ parser = "ResponseTuple"
    /\ pc = "loop"
    /\ input.kind = "attr"
    /\ parsedKeys' = parsedKeys \cup {input.key}
    /\ LET r == TupleMatch(response, input.key, input.val)
       IN  IF r.ok
           THEN /\ response' = r.val
                /\ pc' = "sep"
                /\ Advance
                /\ UNCHANGED <<parser, error, tokens>>
           ELSE Fail(r.err)
    /\ UNCHANGED <<statusVars, mergeVars, deriveVars>>

TupleFinish_NoDefault ==
    /\ parser = "ResponseTuple"
    /\ pc = "loop"
    /\ input.kind = "eof"
    /\ pc' = "ok"
    /\ UNCHANGED <<parser, input, fuel, response, error, parsedKeys, tokens>>
    /\ UNCHANGED <<statusVars, mergeVars, deriveVars>>

\* The loop ends: inner defaults to an empty Value.
TupleFinish ==
    /\ parser = "ResponseTuple"
    /\ pc = "loop"
    /\ input.kind = "eof"
    /\ response' = IF ~response.inner.some
                   THEN [response EXCEPT
                            !.inner = Some(ValueInner(ResponseValueDefault))]
                   ELSE response
    /\ pc' = "ok"
    /\ UNCHANGED <<parser, input, fuel, error, parsedKeys, tokens>>
    /\ UNCHANGED <<statusVars, mergeVars, deriveVars>>

\* if !input.is_empty() { input.parse::<Comma>()? }, in each of the parsers
SeparatorEnd ==
    /\ pc = "sep"
    /\ input.kind = "eof"
    /\ pc' = "loop"
    /\ UNCHANGED <<parser, input, fuel, response, error, parsedKeys, tokens>>
    /\ UNCHANGED <<statusVars, mergeVars, deriveVars>>

SeparatorComma ==
    /\ pc = "sep"
    /\ input.kind = "comma"
    /\ pc' = "loop"
    /\ Advance
    /\ UNCHANGED <<parser, response, error, parsedKeys, tokens>>
    /\ UNCHANGED <<statusVars, mergeVars, deriveVars>>

SeparatorError ==
    /\ pc = "sep"
    /\ input.kind \in {"attr", "punct"}
    /\ Fail(EXPECTED_COMMA_MESSAGE)
    /\ UNCHANGED <<parsedKeys, statusVars, mergeVars, deriveVars>>

(***************************************************************************)
(* impl Parse for DeriveToResponseValue and DeriveIntoResponsesValue       *)
(***************************************************************************)
MISSING_STATUS_ERROR == "missing expected status attribute"

DeriveParsers == {"DeriveToResponseValue", "DeriveIntoResponsesValue"}

\* The keys the message of the `_` arm of each of the two parsers lists
DeriveExpectedKeys(p) ==
    IF p = "DeriveToResponseValue"
    THEN <<"inline", "description", "content_type", "headers", "example">>
    ELSE <<"description", "content_type", "headers", "example", "examples">>

\* The message of the `_` arm of each of the two parsers.
DeriveUnknownMessage(p, attribute_name) ==
    "unexected attribute: " \o attribute_name \o ", expected any of: "
    \o Join(DeriveExpectedKeys(p), ", ")

\* match attribute_name { ... } of the two parsers
DeriveMatch(p, resp, key, val) ==
    IF key \notin {"description", "content_type", "headers", "example", "examples"}
    THEN Err(DeriveUnknownMessage(p, key))
    ELSE IF val.bad THEN Err(BAD_VALUE_MESSAGE)
    ELSE CASE key = "description" -> Ok([resp EXCEPT !.description = val.v])
           [] key = "content_type" -> Ok([resp EXCEPT !.content_type = Some(val.v)])
           [] key = "headers" -> Ok([resp EXCEPT !.headers = val.v])
           [] key = "example" -> Ok([resp EXCEPT !.example = Some(<<val.v, key>>)])
           [] key = "examples" -> Ok([resp EXCEPT !.examples = Some(<<val.v, key>>)])

IntoStatus_Optional(resp, tok) ==
    IF tok.kind # "attr" THEN Ok(resp)
    ELSE IF tok.key # "status" THEN Ok(resp)
    ELSE IF tok.val.bad THEN Err(BAD_VALUE_MESSAGE)
    ELSE LET status == ResponseStatusParse(tok.val.v)
         IN  IF ~status.ok THEN status
             ELSE Ok([resp EXCEPT !.status = status.val])

\* DeriveIntoResponsesValue::parse up to the loop: the first token must be the
\* identifier `status` with a status that resolves to a non-empty token.
IntoStatus(resp, tok) ==
    IF tok.kind # "attr" THEN Err(MISSING_STATUS_ERROR)
    ELSE IF tok.key # "status" THEN Err(MISSING_STATUS_ERROR)
    ELSE IF tok.val.bad THEN Err(BAD_VALUE_MESSAGE)
    ELSE LET status == ResponseStatusParse(tok.val.v)
         IN  IF ~status.ok THEN status
             ELSE IF status.val = EmptyStatus THEN Err(MISSING_STATUS_ERROR)
             ELSE Ok([resp EXCEPT !.status = status.val])

\* The status prefix of DeriveIntoResponsesValue::parse; no separator is
\* parsed between it and the loop.
IntoResponsesStatus ==
    /\ parser = "DeriveIntoResponsesValue"
    /\ pc = "first"
    /\ parsedKeys' = IF input.kind = "attr" THEN parsedKeys \cup {input.key}
                     ELSE parsedKeys
    /\ LET r == IntoStatus(response, input)
       IN  IF r.ok
           THEN /\ response' = r.val
                /\ pc' = "loop"
                /\ Advance
                /\ UNCHANGED <<parser, error, tokens>>
           ELSE Fail(r.err)
    /\ UNCHANGED <<statusVars, mergeVars, deriveVars>>

DeriveIdentError ==
    /\ parser \in DeriveParsers
    /\ pc = "loop"
    /\ input.kind \in {"comma", "punct"}
    /\ Fail(EXPECTED_IDENT_MESSAGE)
    /\ UNCHANGED <<parsedKeys, statusVars, mergeVars, deriveVars>>

DeriveAttribute ==
    /\ parser \in DeriveParsers
    /\ pc = "loop"
    /\ input.kind = "attr"
    /\ parsedKeys' = parsedKeys \cup {input.key}
    /\ LET r == DeriveMatch(parser, response, input.key, input.val)
       IN  IF r.ok
           THEN /\ response' = r.val
                /\ pc' = "sep"
                /\ Advance
                /\ UNCHANGED <<parser, error, tokens>>
           ELSE Fail(r.err)
    /\ UNCHANGED <<statusVars, mergeVars, deriveVars>>

DeriveFinish ==
    /\ parser \in DeriveParsers
    /\ pc = "loop"
    /\ input.kind = "eof"
    /\ pc' = "ok"
    /\ UNCHANGED <<parser, input, fuel, response, error, parsedKeys, tokens>>
    /\ UNCHANGED <<statusVars, mergeVars, deriveVars>>

(***************************************************************************)
(* Emitter: impl ToTokens for ResponseTuple, Header and Responses          *)
(***************************************************************************)
\* TypeTree::get_default_content_type of the type-description subsystem
DefaultContentType(ty) ==
    IF ty \in {"String", "str"} THEN "text/plain" ELSE "application/json"

\* content_schema of create_content
ContentSchema(path_type) ==
    CASE path_type.kind = "Ref" ->
            [schema |-> "Ref::new", ty |-> path_type.ty, is_inline |-> FALSE]
      [] path_type.kind = "MediaType" ->
            [schema |-> "MediaTypeSchema", ty |-> path_type.ty,
             is_inline |-> path_type.is_inline]
      [] path_type.kind = "InlineSchema" ->
            [schema |-> "InlineSchema", of |-> path_type.schema,
             ty |-> path_type.ty, is_inline |-> TRUE]

create_content_NoExample(path_type, example, examples) ==
    [schema |-> ContentSchema(path_type), example |-> None, examples |-> None]

\* create_content: ContentBuilder::new().schema(..)[.example(..)]
\* [.examples_from_iter(..)].build()
create_content(path_type, example, examples) ==
    [schema |-> ContentSchema(path_type), example |-> example,
     examples |-> examples]

ContentCall(content_type, content) ==
    [op |-> "content", content_type |-> content_type, content |-> content]

\* impl ToTokens for Header
HeaderToTokens(header) ==
    [builder |-> IF header.value_type.some THEN "HeaderBuilder::new().schema"
                 ELSE "Header::default",
     schema |-> header.value_type,
     description |-> header.description]

HeaderCall(header) ==
    [op |-> "header", name |-> header.name, header |-> HeaderToTokens(header)]

PrimaryBodyContent_AlwaysDefault(val) ==
    IF ~val.response_type.some THEN <<>>
    ELSE LET response_type == val.response_type.val
             content == create_content(response_type, val.example, val.examples)
         IN  IF response_type.kind = "Ref"
             THEN <<ContentCall("application/json", content)>>
             ELSE <<ContentCall(DefaultContentType(response_type.ty), content)>>

\* to_tokens: if let Some(response_type) = &val.response_type { ... }
PrimaryBodyContent(val) ==
    IF ~val.response_type.some THEN <<>>
    ELSE LET response_type == val.response_type.val
             content == create_content(response_type, val.example, val.examples)
         IN  IF val.content_type.some
             THEN [i \in 1..Len(val.content_type.val) |->
                      ContentCall(val.content_type.val[i], content)]
             ELSE IF response_type.kind = "Ref"
             THEN <<ContentCall("application/json", content)>>
             ELSE <<ContentCall(DefaultContentType(response_type.ty), content)>>

\* to_tokens: val.content.iter()...
ContentListCalls(val) ==
    [i \in 1..Len(val.content) |->
        ContentCall(val.content[i].content_type,
                    create_content(val.content[i].body, val.content[i].example,
                                   val.content[i].examples))]

\* to_tokens: val.headers.iter()...
HeaderCalls(val) == [i \in 1..Len(val.headers) |-> HeaderCall(val.headers[i])]

ValueToTokens_HeadersFirst(val) ==
    <<[op |-> "new"], [op |-> "description", description |-> val.description]>>
    \o HeaderCalls(val)
    \o PrimaryBodyContent(val)
    \o ContentListCalls(val)
    \o <<[op |-> "build"]>>

ValueToTokens_ContentWins(val) ==
    <<[op |-> "new"], [op |-> "description", description |-> val.description]>>
    \o (IF Len(val.content) > 0 THEN <<>> ELSE PrimaryBodyContent(val))
    \o ContentListCalls(val)
    \o HeaderCalls(val)
    \o <<[op |-> "build"]>>

\* to_tokens, ResponseTupleInner::Value(val)
ValueToTokens(val) ==
    <<[op |-> "new"], [op |-> "description", description |-> val.description]>>
    \o PrimaryBodyContent(val)
    \o ContentListCalls(val)
    \o HeaderCalls(val)
    \o <<[op |-> "build"]>>

RefToTokens_AlwaysNamed(res) ==
    <<[op |-> "ref_from_response_name", ty |-> res.ty]>>

\* to_tokens, ResponseTupleInner::Ref(res)
RefToTokens(res) ==
    IF res.is_inline THEN <<[op |-> "inline_response", ty |-> res.ty]>>
    ELSE <<[op |-> "ref_from_response_name", ty |-> res.ty]>>

\* impl ToTokens for ResponseTuple; inner is unwrapped
ResponseTupleToTokens(resp) ==
    IF resp.inner.val.kind = "Ref" THEN RefToTokens(resp.inner.val.ty)
    ELSE ValueToTokens(resp.inner.val.value)

\* impl ToTokens for Responses, over one Response::Tuple
ResponsesToTokens(resp) ==
    <<[op |-> "ResponsesBuilder::new"],
      [op |-> "response", code |-> resp.status_code,
       response |-> ResponseTupleToTokens(resp)],
      [op |-> "build"]>>

EmitResponses ==
    /\ parser = "ResponseTuple"
    /\ pc = "ok"
    /\ tokens' = ResponsesToTokens(response)
    /\ pc' = "emitted"
    /\ UNCHANGED <<parser, input, fuel, response, error, parsedKeys>>
    /\ UNCHANGED <<statusVars, mergeVars, deriveVars>>

\* Descriptors handed to ResponseTuple::to_tokens: Value descriptors as
\* ResponseTuple::parse leaves them (a Ref or MediaType body, any content
\* list), Value descriptors as create_response builds them (an InlineSchema
\* body with an empty content list) and Ref descriptors.
EmitValues ==
    {[description |-> d, response_type |-> rt, content_type |-> ct,
      headers |-> hs, example |-> e, examples |-> es, content |-> c] :
        d \in DescriptionVals,
        rt \in {None} \cup {Some(b) : b \in BodyVals},
        ct \in {None} \cup {Some(l) : l \in ContentTypeVals},
        hs \in {<<>>} \cup HeadersVals,
        e \in {None} \cup {Some(x) : x \in ExampleVals},
        es \in {None} \cup {Some(x) : x \in ExamplesVals},
        c \in {<<>>} \cup ContentVals}

EmitSchemas ==
    {[schema |-> "NamedStructSchema", struct_name |-> "MyResponse",
      fields |-> <<>>],
     [schema |-> "EnumSchema", enum_name |-> "MyResponse", variants |-> <<>>]}

EmitDerivedValues ==
    {[description |-> d,
      response_type |-> Some(PathTypeInlineSchema(sc, ty)),
      content_type |-> ct, headers |-> <<>>, example |-> e,
      examples |-> None, content |-> <<>>] :
        d \in DescriptionVals,
        sc \in EmitSchemas,
        ty \in {"MyResponse", "String"},
        ct \in {None} \cup {Some(l) : l \in ContentTypeVals},
        e \in {None} \cup {Some(x) : x \in ExampleVals}}

\* impl ToTokens for ResponseTuple, called on its own
EmitTuple ==
    /\ parser = "ToTokens"
    /\ pc = "ok"
    /\ tokens' = ResponseTupleToTokens(response)
    /\ pc' = "emitted"
    /\ UNCHANGED <<parser, input, fuel, response, error, parsedKeys>>
    /\ UNCHANGED <<statusVars, mergeVars, deriveVars>>

(***************************************************************************)
(* DeriveResponse: get_type, create_response, impl ToTokens                *)
(***************************************************************************)
\* enum DeriveResponseType
ShapeUnnamed(ty, is_inline) ==
    [shape |-> "Unnamed", ty |-> ty, is_inline |-> is_inline]
ShapeNamed(ty) == [shape |-> "Named", ty |-> ty, is_inline |-> FALSE]
ShapeUnit == [shape |-> "Unit", ty |-> "", is_inline |-> FALSE]
ShapeEnum(ty) == [shape |-> "Enum", ty |-> ty, is_inline |-> FALSE]

\* A field: its type, the #[content("..")] tag and whether #[to_schema] is set.
Field(ty, content, to_schema) ==
    [ty |-> ty, content |-> content, to_schema |-> to_schema]

\* A variant: its fields and the values of its #[response(..)] attributes.
Variant(fields, responses) == [fields |-> fields, responses |-> responses]

\* NamedStructSchema { fields, struct_name, .. } and EnumSchema { variants,
\* enum_name, .. }: the schema sources handed to PathType::InlineSchema
NamedStructSchema(it) ==
    [schema |-> "NamedStructSchema", struct_name |-> it.ident,
     fields |-> it.fields]
EnumSchema(it) ==
    [schema |-> "EnumSchema", enum_name |-> it.ident, variants |-> it.variants]

get_type_TupleAsUnnamed(it) ==
    CASE it.data = "StructNamed" -> Ok(ShapeNamed(it.ident))
      [] it.data = "StructUnit" -> Ok(ShapeUnit)
      [] it.data = "StructUnnamed" ->
            IF Len(it.fields) >= 1
            THEN Ok(ShapeUnnamed(it.fields[1].ty, it.fields[1].to_schema))
            ELSE Err("Unnamed struct used for ToResponse must have one argument")
      [] it.data = "Enum" -> Ok(ShapeEnum(it.ident))
      [] OTHER -> Err("Union type is not supported with ToResponse")

\* DeriveResponse::get_type; abort! is an Err
get_type(it) ==
    CASE it.data = "StructNamed" -> Ok(ShapeNamed(it.ident))
      [] it.data = "StructUnit" -> Ok(ShapeUnit)
      [] it.data = "StructUnnamed" ->
            IF Len(it.fields) <= 1
            THEN IF Len(it.fields) = 1
                 THEN Ok(ShapeUnnamed(it.fields[1].ty, it.fields[1].to_schema))
                 ELSE Err("Unnamed struct used for ToResponse must have one argument")
            ELSE Err("Unnamed struct with tuple value is unsupported in ToResponse")
      [] it.data = "Enum" -> Ok(ShapeEnum(it.ident))
      [] OTHER -> Err("Union type is not supported with ToResponse")

\* Option<(T, Ident)>::map(|(value, _)| value)
DropIdent(opt) == IF opt.some THEN Some(opt.val[1]) ELSE None

\* The map and filter_map closures of the Enum arm, for one variant: None
\* unless the first field exists and carries a content tag.
VariantContent(variant) ==
    LET variant_derive == parse_derive_response_value(variant.responses)
        example == IF variant_derive.some THEN variant_derive.val.example ELSE None
        examples == IF variant_derive.some THEN variant_derive.val.examples ELSE None
    IN  IF Len(variant.fields) = 0 THEN None
        ELSE IF ~variant.fields[1].content.some THEN None
        ELSE Some(Content(variant.fields[1].content.val,
                          PathTypeMediaType(variant.fields[1].ty,
                                            variant.fields[1].to_schema),
                          DropIdent(example), DropIdent(examples)))

RECURSIVE VariantsContent_Reversed(_)
VariantsContent_Reversed(variants) ==
    IF Len(variants) = 0 THEN <<>>
    ELSE LET c == VariantContent(Head(variants))
         IN  VariantsContent_Reversed(Tail(variants))
             \o (IF c.some THEN <<c.val>> ELSE <<>>)

\* Punctuated::from_iter(variants_content)
RECURSIVE VariantsContent(_)
VariantsContent(variants) ==
    IF Len(variants) = 0 THEN <<>>
    ELSE LET c == VariantContent(Head(variants))
         IN  (IF c.some THEN <<c.val>> ELSE <<>>)
             \o VariantsContent(Tail(variants))

\* The type argument the Enum arm passes to create_response.
EnumBodyType(it, content) ==
    IF Len(content) > 1 THEN None
    ELSE Some(PathTypeInlineSchema(EnumSchema(it), it.ident))

create_response_NoExampleCheck(it, description, ty, content) ==
    LET response_value == parse_derive_response_value(it.responses)
    IN  IF response_value.some
        THEN Ok([status_code |-> EmptyStatus,
                 inner |-> Some(ValueInner(
                    [description |->
                        IF response_value.val.description = ""
                            /\ description # ""
                        THEN description
                        ELSE response_value.val.description,
                     headers |-> response_value.val.headers,
                     example |-> DropIdent(response_value.val.example),
                     examples |-> DropIdent(response_value.val.examples),
                     content_type |-> response_value.val.content_type,
                     response_type |-> IF Len(content) = 0 THEN ty ELSE None,
                     content |-> content]))])
        ELSE Ok([status_code |-> EmptyStatus,
                 inner |-> Some(ValueInner(
                    [ResponseValueDefault EXCEPT
                        !.response_type = IF Len(content) = 0 THEN ty ELSE None,
                        !.content = content,
                        !.description = description]))])

create_response_DocFirst(it, description, ty, content) ==
    LET response_value == parse_derive_response_value(it.responses)
    IN  IF response_value.some
        THEN IF \/ Len(content) # 0 /\ response_value.val.example.some
                \/ Len(content) # 0 /\ response_value.val.examples.some
             THEN Err("Enum with #[content] attribute in variant cannot have enum level example or examples defined")
             ELSE Ok([status_code |-> EmptyStatus,
                      inner |-> Some(ValueInner(
                        [description |->
                            IF description # "" THEN description
                            ELSE response_value.val.description,
                         headers |-> response_value.val.headers,
                         example |-> DropIdent(response_value.val.example),
                         examples |-> DropIdent(response_value.val.examples),
                         content_type |-> response_value.val.content_type,
                         response_type |-> ty,
                         content |-> content]))])
        ELSE Ok([status_code |-> EmptyStatus,
                 inner |-> Some(ValueInner(
                    [ResponseValueDefault EXCEPT
                        !.response_type = ty,
                        !.content = content,
                        !.description = description]))])

\* DeriveResponse::create_response
create_response(it, description, ty, content) ==
    LET response_value == parse_derive_response_value(it.responses)
    IN  IF response_value.some
        THEN IF \/ Len(content) # 0 /\ response_value.val.example.some
                \/ Len(content) # 0 /\ response_value.val.examples.some
             THEN LET ident == IF response_value.val.example.some
                               THEN response_value.val.example.val[2]
                               ELSE response_value.val.examples.val[2]
                  IN  Err("Enum with #[content] attribute in variant cannot have enum level example or examples defined; Try defining "
                          \o ident \o " on the enum variant")
             ELSE Ok([status_code |-> EmptyStatus,
                      inner |-> Some(ValueInner(
                        [description |->
                            IF response_value.val.description = ""
                                /\ description # ""
                            THEN description
                            ELSE response_value.val.description,
                         headers |-> response_value.val.headers,
                         example |-> DropIdent(response_value.val.example),
                         examples |-> DropIdent(response_value.val.examples),
                         content_type |-> response_value.val.content_type,
                         response_type |-> IF Len(content) = 0 THEN ty ELSE None,
                         content |-> content]))])
        ELSE Ok([status_code |-> EmptyStatus,
                 inner |-> Some(ValueInner(
                    [ResponseValueDefault EXCEPT
                        !.response_type = IF Len(content) = 0 THEN ty ELSE None,
                        !.content = content,
                        !.description = description]))])

\* The match of DeriveResponse::to_tokens: the descriptor of each shape
DeriveResponseTuple(it) ==
    LET derive_response_type == get_type(it)
        description == it.doc
    IN  IF ~derive_response_type.ok THEN derive_response_type
        ELSE CASE derive_response_type.val.shape = "Unnamed" ->
                    create_response(it, description,
                        Some(PathTypeMediaType(derive_response_type.val.ty,
                                               derive_response_type.val.is_inline)),
                        <<>>)
               [] derive_response_type.val.shape = "Named" ->
                    create_response(it, description,
                        Some(PathTypeInlineSchema(NamedStructSchema(it),
                                                  derive_response_type.val.ty)),
                        <<>>)
               [] derive_response_type.val.shape = "Unit" ->
                    create_response(it, description, None, <<>>)
               [] derive_response_type.val.shape = "Enum" ->
                    LET content == VariantsContent(it.variants)
                    IN  create_response(it, description,
                                        EnumBodyType(it, content), content)

\* impl ToTokens for DeriveResponse: the impl block, or nothing on abort
DeriveResponseToTokens(it) ==
    LET r == DeriveResponseTuple(it)
    IN  IF ~r.ok THEN <<>>
        ELSE <<[op |-> "impl ToResponse", ident |-> it.ident, name |-> it.ident,
                response |-> ResponseTupleToTokens(r.val)]>>

\* Declarations handed to the derive
DeclResponseValues ==
    {[DeriveValueDefault EXCEPT !.description = "from attribute"],
     [DeriveValueDefault EXCEPT !.example = Some(<<"ex", "example">>)],
     [DeriveValueDefault EXCEPT
        !.examples = Some(<<<<[name |-> "Example1"]>>, "examples">>)],
     [DeriveValueDefault EXCEPT !.content_type = Some(<<"text/xml">>),
        !.headers = <<Header("x-token", None, None)>>],
     [DeriveValueDefault EXCEPT !.content_type = Some(<<>>)],
     [DeriveValueDefault EXCEPT
        !.content_type = Some(<<"application/json", "text/csv">>)]}
DeclResponses ==
    UNION {[1..n -> DeclResponseValues] : n \in 0..MaxDeclAttrs}

VariantSet ==
    {Variant(<<>>, <<>>),
     Variant(<<Field("Plain", None, FALSE)>>, <<>>),
     Variant(<<Field("Admin", Some("application/vnd.admin+json"), FALSE)>>, <<>>),
     Variant(<<Field("User", Some("application/json"), TRUE)>>,
             <<[DeriveValueDefault EXCEPT !.example = Some(<<"ex", "example">>)]>>),
     Variant(<<Field("String", Some("text/plain"), FALSE),
               Field("Extra", None, FALSE)>>, <<>>)}
VariantLists == UNION {[1..n -> VariantSet] : n \in 0..MaxVariants}

NamedFieldLists ==
    {<<>>,
     <<Field("i32", None, FALSE)>>,
     <<Field("i32", None, FALSE), Field("String", None, FALSE)>>}

UnnamedFieldLists ==
    {<<>>,
     <<Field("String", None, FALSE)>>,
     <<Field("User", None, TRUE)>>,
     <<Field("User", None, FALSE), Field("String", None, FALSE)>>}

DeriveItem(data, fields, variants, responses, doc) ==
    [ident |-> "MyResponse", data |-> data, fields |-> fields,
     variants |-> variants, responses |-> responses, doc |-> doc]

DocComments == {"", "from doc comment"}

IdleItem == DeriveItem("StructUnit", <<>>, <<>>, <<>>, "")

\* impl ToTokens for DeriveResponse
DeriveResponseExpand ==
    /\ derived = Pending
    /\ derived' = DeriveResponseTuple(item)
    /\ implTokens' = DeriveResponseToTokens(item)
    /\ UNCHANGED <<item, statusVars, mergeVars, parseVars>>

(***************************************************************************)
(* Specifications                                                          *)
(***************************************************************************)
StatusInit ==
    /\ stInput \in StatusTokens
    /\ stResult = Pending
    /\ mgLevel = "ToResponse"
    /\ mgAttrs = <<>>
    /\ mgAcc = None
    /\ parser = "ResponseTuple"
    /\ input = Eof
    /\ fuel = 0
    /\ pc = "idle"
    /\ response = ResponseTupleDefault
    /\ error = ""
    /\ parsedKeys = {}
    /\ tokens = <<>>
    /\ item = IdleItem
    /\ derived = Pending
    /\ implTokens = <<>>

StatusNext == ParseResponseStatus

SpecStatus == StatusInit /\ [][StatusNext]_vars

MergeInit ==
    /\ mgLevel \in {"ToResponse", "IntoResponses"}
    /\ mgAttrs = <<>>
    /\ mgAcc = None
    /\ stInput = IdleStatusTok
    /\ stResult = Pending
    /\ parser = "ResponseTuple"
    /\ input = Eof
    /\ fuel = 0
    /\ pc = "idle"
    /\ response = ResponseTupleDefault
    /\ error = ""
    /\ parsedKeys = {}
    /\ tokens = <<>>
    /\ item = IdleItem
    /\ derived = Pending
    /\ implTokens = <<>>

MergeNext ==
    \/ SkipAttribute
    \/ ReduceFirst
    \/ ReduceToResponse
    \/ ReduceIntoResponses

SpecMerge == MergeInit /\ [][MergeNext]_vars

ParseInit ==
    /\ parser \in {"ResponseTuple", "DeriveToResponseValue",
                   "DeriveIntoResponsesValue"}
    /\ \/ input = Eof /\ fuel = MaxTokens
       \/ TokenIs(input) /\ fuel = MaxTokens - 1
    /\ pc = IF parser = "DeriveIntoResponsesValue" THEN "first" ELSE "loop"
    /\ response = IF parser = "ResponseTuple" THEN ResponseTupleDefault
                  ELSE DeriveValueDefault
    /\ error = ""
    /\ parsedKeys = {}
    /\ tokens = <<>>
    /\ item = IdleItem
    /\ derived = Pending
    /\ implTokens = <<>>
    /\ stInput = IdleStatusTok
    /\ stResult = Pending
    /\ mgLevel = "ToResponse"
    /\ mgAttrs = <<>>
    /\ mgAcc = None

ParseNext ==
    \/ TupleIdentError
    \/ TupleAttribute
    \/ TupleFinish
    \/ SeparatorEnd
    \/ SeparatorComma
    \/ SeparatorError
    \/ IntoResponsesStatus
    \/ DeriveIdentError
    \/ DeriveAttribute
    \/ DeriveFinish
    \/ EmitResponses

SpecParse == ParseInit /\ [][ParseNext]_vars

DeriveInit ==
    /\ \/ \E d \in {"StructUnit", "Union"},
            rs \in DeclResponses, doc \in DocComments :
              item = DeriveItem(d, <<>>, <<>>, rs, doc)
       \/ \E fs \in NamedFieldLists, rs \in DeclResponses, doc \in DocComments :
              item = DeriveItem("StructNamed", fs, <<>>, rs, doc)
       \/ \E fs \in UnnamedFieldLists, rs \in DeclResponses, doc \in DocComments :
              item = DeriveItem("StructUnnamed", fs, <<>>, rs, doc)
       \/ \E vs \in VariantLists, rs \in DeclResponses, doc \in DocComments :
              item = DeriveItem("Enum", <<>>, vs, rs, doc)
    /\ derived = Pending
    /\ implTokens = <<>>
    /\ parser = "ResponseTuple"
    /\ input = Eof
    /\ fuel = 0
    /\ pc = "idle"
    /\ response = ResponseTupleDefault
    /\ error = ""
    /\ parsedKeys = {}
    /\ tokens = <<>>
    /\ stInput = IdleStatusTok
    /\ stResult = Pending
    /\ mgLevel = "ToResponse"
    /\ mgAttrs = <<>>
    /\ mgAcc = None

DeriveNext == DeriveResponseExpand

SpecDerive == DeriveInit /\ [][DeriveNext]_vars

EmitInit ==
    /\ parser = "ToTokens"
    /\ pc = "ok"
    /\ \/ \E v \in EmitValues :
              response = [status_code |-> EmptyStatus,
                          inner |-> Some(ValueInner(v))]
       \/ \E v \in EmitDerivedValues :
              response = [status_code |-> EmptyStatus,
                          inner |-> Some(ValueInner(v))]
       \/ \E t \in ResponseVals :
              response = [status_code |-> EmptyStatus,
                          inner |-> Some(RefInner(t))]
    /\ input = Eof
    /\ fuel = 0
    /\ error = ""
    /\ parsedKeys = {}
    /\ tokens = <<>>
    /\ item = IdleItem
    /\ derived = Pending
    /\ implTokens = <<>>
    /\ stInput = IdleStatusTok
    /\ stResult = Pending
    /\ mgLevel = "ToResponse"
    /\ mgAttrs = <<>>
    /\ mgAcc = None

EmitNext == EmitTuple

SpecEmit == EmitInit /\ [][EmitNext]_vars

\* Both macros of a compilation: an occurrence is parsed and emitted, a
\* declaration is expanded by the derive.
PipelineInit == ParseInit \/ DeriveInit

PipelineNext == ParseNext \/ DeriveNext

SpecPipeline == PipelineInit /\ [][PipelineNext]_vars

(***************************************************************************)
(* Properties of ResponseTuple::parse and of the emitter                   *)
(***************************************************************************)
\* The attribute under the cursor asks for the kind inner does not have.
KindConflict ==
    /\ input.kind = "attr"
    /\ response.inner.some
    /\ \/ input.key = "response" /\ response.inner.val.kind = "Value"
       \/ input.key \in ValueKeys /\ response.inner.val.kind = "Ref"

\* C1: while ResponseTuple::parse consumes keys, the kind of inner never
\* changes once set; a well-formed `response` key met when inner is a Value,
\* or a well-formed value-setting key met when inner is a Ref, ends the parse
\* with the fixed conflict error and leaves the descriptor as it was; no other
\* key, `status` included, ends it with that error.
C1_InnerKindNeverSwitches ==
    [][parser = "ResponseTuple" =>
        /\ response.inner.some =>
              /\ response'.inner.some
              /\ response'.inner.val.kind = response.inner.val.kind
        /\ (pc = "loop" /\ KindConflict /\ ~input.val.bad) =>
              /\ pc' = "err"
              /\ error' = RESPONSE_INCOMPATIBLE_ATTRIBUTES_MSG
              /\ response' = response
        /\ (pc = "loop" /\ pc' = "err"
                /\ error' = RESPONSE_INCOMPATIBLE_ATTRIBUTES_MSG) =>
              KindConflict
    ]_vars

C1_Witness ==
    /\ parser = "ResponseTuple"
    /\ pc = "err"
    /\ error = RESPONSE_INCOMPATIBLE_ATTRIBUTES_MSG
    /\ parsedKeys = {"status", "description", "response"}
    /\ response.inner.val.kind = "Value"
    /\ response.inner.val.value.description = "ok"

\* A Value descriptor has been emitted by Responses::to_tokens.
EmittedValue ==
    /\ parser = "ResponseTuple"
    /\ pc = "emitted"
    /\ response.inner.val.kind = "Value"

Emitted == tokens[2].response
Descriptor == response.inner.val.value

\* The calls between description(..) and build() fall into three groups: the
\* content calls of the body, the content calls of the content list and the
\* header calls; the last two have one call per entry.
PrimaryCount == Len(Emitted) - 3 - Len(Descriptor.content) - Len(Descriptor.headers)

\* The emitted calls are new(), description(d), the body's content calls, one
\* content call per entry of the content list in order, one header call per
\* header in order, then build().
EmittedInOrder ==
    LET nP == PrimaryCount
        nC == Len(Descriptor.content)
        nH == Len(Descriptor.headers)
    IN  /\ nP >= 0
        /\ Emitted[1] = [op |-> "new"]
        /\ Emitted[2] = [op |-> "description",
                         description |-> Descriptor.description]
        /\ \A i \in 1..nP :
              /\ Emitted[2 + i].op = "content"
              /\ Emitted[2 + i].content.schema
                   = ContentSchema(Descriptor.response_type.val)
        /\ \A i \in 1..nC :
              /\ Emitted[2 + nP + i].op = "content"
              /\ Emitted[2 + nP + i].content_type
                   = Descriptor.content[i].content_type
              /\ Emitted[2 + nP + i].content.schema
                   = ContentSchema(Descriptor.content[i].body)
        /\ \A i \in 1..nH :
              /\ Emitted[2 + nP + nC + i].op = "header"
              /\ Emitted[2 + nP + nC + i].name = Descriptor.headers[i].name
        /\ Emitted[Len(Emitted)] = [op |-> "build"]

\* C2 as stated: the calls of a Value descriptor come in the order new(),
\* description, body content, content list, headers, build(), and the body's
\* content group is absent exactly when the descriptor has no body.
C2_EmissionOrder ==
    EmittedValue =>
        /\ EmittedInOrder
        /\ PrimaryCount = 0 <=> ~Descriptor.response_type.some

\* C2 as amended: the same order; the body's content group is absent exactly
\* when the descriptor has no body or its explicit content_type list is empty.
C2_EmissionOrderAmended ==
    EmittedValue =>
        /\ EmittedInOrder
        /\ PrimaryCount = 0 <=>
              \/ ~Descriptor.response_type.some
              \/ Descriptor.content_type = Some(<<>>)

C2_Witness ==
    /\ EmittedValue
    /\ Descriptor.response_type.some
    /\ Len(Descriptor.content) = 2
    /\ Len(Descriptor.headers) = 2
    /\ Len(Emitted) = 8
    /\ Emitted[3].op = "content"
    /\ Emitted[5].op = "content"
    /\ Emitted[6].op = "header"

\* C3: a Value descriptor with a body and a non-empty content list is
\* emitted with the content calls of the list only, none for the body.
C3_ContentListWins ==
    (EmittedValue /\ Descriptor.response_type.some
        /\ Len(Descriptor.content) > 0) =>
        /\ Len(SelectSeq(Emitted, LAMBDA c : c.op = "content"))
             = Len(Descriptor.content)
        /\ SelectSeq(Emitted, LAMBDA c : c.op = "content")
             = ContentListCalls(Descriptor)

\* C7: an operation-level occurrence is parsed successfully only if it holds
\* a `status` key, so no parsed operation-level response, path tuple or
\* DeriveIntoResponsesValue, reaches emission with an empty status token.
C7_StatusRequired ==
    /\ (parser = "ResponseTuple" /\ pc \in {"ok", "emitted"}) =>
          /\ "status" \in parsedKeys
          /\ response.status_code # EmptyStatus
    /\ (parser = "ResponseTuple" /\ pc = "emitted") =>
          tokens[2].code # EmptyStatus
    /\ (parser = "DeriveIntoResponsesValue" /\ pc = "ok") =>
          /\ "status" \in parsedKeys
          /\ response.status # EmptyStatus

(***************************************************************************)
(* Properties of the occurrence merge                                      *)
(***************************************************************************)
IsResponseAttr(a) == a.path = "response"
\* The parsed values of the response attributes folded so far, in order.
Occs == SelectSeq(mgAttrs, IsResponseAttr)
Occ(i) == Occs[i].value

\* The value Get gives for the last occurrence that passes Test, or empty.
LastSetting(Test(_), Get(_), empty) ==
    LET hits == {i \in 1..Len(Occs) : Test(Occ(i))}
    IN  IF hits = {} THEN empty
        ELSE Get(Occ(CHOOSE i \in hits : \A j \in hits : j <= i))

ContentTypeOf(v) == v.content_type
HeadersOf(v) == v.headers
DescriptionOf(v) == v.description
ExampleOf(v) == v.example
ExamplesOf(v) == v.examples

HasContentTypeKey(v) == v.content_type.some
HasNonEmptyContentType(v) == v.content_type.some /\ Len(v.content_type.val) > 0
HasHeaders(v) == Len(v.headers) > 0
HasDescription(v) == v.description # ""
HasExample(v) == v.example.some
HasExamples(v) == v.examples.some

\* C4 as stated: folding the occurrences of a declaration with
\* DeriveToResponseValue::merge_from leaves in every field the value of the
\* last occurrence in which that field is non-empty; an empty or absent field
\* never overrides.
C4_LastNonEmptyWins ==
    (mgLevel = "ToResponse" /\ mgAcc.some) =>
        /\ IF \E i \in 1..Len(Occs) : HasNonEmptyContentType(Occ(i))
           THEN mgAcc.val.content_type
                 = LastSetting(HasNonEmptyContentType, ContentTypeOf, None)
           ELSE ~HasNonEmptyContentType(mgAcc.val)
        /\ mgAcc.val.headers = LastSetting(HasHeaders, HeadersOf, <<>>)
        /\ mgAcc.val.description = LastSetting(HasDescription, DescriptionOf, "")
        /\ mgAcc.val.example = LastSetting(HasExample, ExampleOf, None)
        /\ mgAcc.val.examples = LastSetting(HasExamples, ExamplesOf, None)

\* C4 as amended: description and headers end as the value of the last
\* occurrence in which they are non-empty; content_type, example and examples
\* end as the value of the last occurrence in which the key is present, so an
\* explicitly empty content_type list overrides a list set before it.
C4_LastPresentWins ==
    (mgLevel = "ToResponse" /\ mgAcc.some) =>
        /\ mgAcc.val.content_type
             = LastSetting(HasContentTypeKey, ContentTypeOf, None)
        /\ mgAcc.val.headers = LastSetting(HasHeaders, HeadersOf, <<>>)
        /\ mgAcc.val.description = LastSetting(HasDescription, DescriptionOf, "")
        /\ mgAcc.val.example = LastSetting(HasExample, ExampleOf, None)
        /\ mgAcc.val.examples = LastSetting(HasExamples, ExamplesOf, None)

C4_Witness ==
    /\ mgLevel = "ToResponse"
    /\ Len(Occs) = 2
    /\ Occ(1).description = "d1" /\ Occ(2).description = ""
    /\ Occ(1).example.some /\ ~Occ(2).example.some
    /\ Occ(1).content_type = Some(<<"text/ct1">>)
    /\ Occ(2).content_type = Some(<<>>)
    /\ mgAcc.val.description = "d1"
    /\ mgAcc.val.example = Occ(1).example
    /\ mgAcc.val.content_type = Some(<<>>)

\* merge_from of the folded implementation
MergeOf(a, b) ==
    IF mgLevel = "ToResponse" THEN ToResponseMergeFrom(a, b)
    ELSE IntoResponsesMergeFrom(a, b)

OnlyDescription(v) ==
    /\ v.description # ""
    /\ ~v.content_type.some
    /\ Len(v.headers) = 0
    /\ ~v.example.some
    /\ ~v.examples.some

\* Two occurrences A, B have been folded (mgAcc is merge(A, B)) and B sets
\* only description.
PairWithDescriptionOnly ==
    /\ Len(Occs) = 2
    /\ mgAcc.some
    /\ OnlyDescription(Occ(2))

\* C5 as stated: when B sets only description, merge(A, B) and merge(B, A)
\* agree in every field but description, and in both orders description ends
\* as B's value; for both merge implementations.
C5_DescriptionOnlyCommutes ==
    PairWithDescriptionOnly =>
        LET AB == mgAcc.val
            BA == MergeOf(Occ(2), Occ(1))
        IN  /\ AB.status = BA.status
            /\ AB.content_type = BA.content_type
            /\ AB.headers = BA.headers
            /\ AB.example = BA.example
            /\ AB.examples = BA.examples
            /\ AB.description = Occ(2).description
            /\ BA.description = Occ(2).description

\* C5 as amended: when B sets only description, merge(A, B) and merge(B, A)
\* agree in content_type, headers, example and examples; status is that of
\* the occurrence merged last; description is B's in merge(A, B), and in
\* merge(B, A) it is A's unless A's is empty.
C5_DescriptionOnlyMerge ==
    PairWithDescriptionOnly =>
        LET AB == mgAcc.val
            BA == MergeOf(Occ(2), Occ(1))
        IN  /\ AB.status = Occ(2).status
            /\ BA.status = Occ(1).status
            /\ AB.content_type = BA.content_type
            /\ AB.headers = BA.headers
            /\ AB.example = BA.example
            /\ AB.examples = BA.examples
            /\ AB.description = Occ(2).description
            /\ BA.description = IF Occ(1).description # ""
                                 THEN Occ(1).description
                                 ELSE Occ(2).description

C5_Witness ==
    /\ PairWithDescriptionOnly
    /\ mgLevel = "IntoResponses"
    /\ Occ(1).description = "d1"
    /\ Occ(1).headers # <<>>
    /\ mgAcc.val.description = "d2"
    /\ mgAcc.val.headers = Occ(1).headers

RECURSIVE ValuesOf(_)
ValuesOf(attrs) ==
    IF Len(attrs) = 0 THEN <<>> ELSE <<Head(attrs).value>> \o ValuesOf(Tail(attrs))

C8_StatusRangeLiteral ==
    (stResult # Pending /\ stInput.kind = "LitStr") =>
        IF stInput.text \in {"default", "1XX", "2XX", "3XX", "4XX", "5XX"}
        THEN stResult = Ok(stInput.text)
        ELSE stResult = Err("Invalid status range, expected one of: "
                            \o "default, 1XX, 2XX, 3XX, 4XX, 5XX")

C8_Witness ==
    /\ stInput.kind = "LitStr"
    /\ stInput.text = "2xx"
    /\ stResult # Pending
    /\ ~stResult.ok

\* C9: an identifier path resolves by its final segment only, compared
\* case-sensitively with the names of the table: to the decimal code of the
\* entry of that name (NOT_FOUND to 404 under any leading segments), or to an
\* error naming the identifier when no entry has it; a range token or a
\* number written as an identifier is not resolved.
C9_LastSegmentLookup ==
    (stResult # Pending /\ stInput.kind = "Ident") =>
        LET name == stInput.segments[Len(stInput.segments)]
            entries == {i \in 1..Len(STATUS_CODES) : STATUS_CODES[i][2] = name}
        IN  /\ entries # {} =>
                  \E i \in entries : stResult = Ok(ToString(STATUS_CODES[i][1]))
            /\ entries = {} =>
                  stResult = Err("No associate item " \o name
                                 \o " found for struct http::StatusCode")
            /\ name = "NOT_FOUND" => stResult = Ok("404")
            /\ name \in {"default", "X2XX", "not_found", "Ok"} => ~stResult.ok

C9_Witness ==
    /\ stInput.kind = "Ident"
    /\ stInput.segments = <<"BOGUS", "NOT_FOUND">>
    /\ stResult = Ok("404")

(***************************************************************************)
(* Properties of the derive                                                *)
(***************************************************************************)
\* The variants of the declaration whose first field carries a content tag.
TaggedVariants ==
    {i \in 1..Len(item.variants) :
        /\ Len(item.variants[i].fields) > 0
        /\ item.variants[i].fields[1].content.some}

\* C10: for a tagged-union declaration with at most one content variant the
\* descriptor's body is the inline schema of the whole union; with more than
\* one content variant the body is not an inline schema and the content
\* variants carry the types.
C10_EnumBodyShape ==
    (item.data = "Enum" /\ derived # Pending /\ derived.ok) =>
        LET value == derived.val.inner.val.value
        IN  /\ Cardinality(TaggedVariants) <= 1 =>
                  value.response_type
                    = Some(PathTypeInlineSchema(EnumSchema(item), item.ident))
            /\ Cardinality(TaggedVariants) > 1 =>
                  /\ value.response_type = None
                  /\ Len(value.content) = Cardinality(TaggedVariants)

\* The merged declaration-level annotation sets the key: merge_from keeps a
\* key that any occurrence sets.
DeclSetsExample == \E i \in 1..Len(item.responses) : item.responses[i].example.some
DeclSetsExamples == \E i \in 1..Len(item.responses) : item.responses[i].examples.some

ExampleConflictError(key) ==
    Err("Enum with #[content] attribute in variant cannot have enum level example or examples defined; Try defining "
        \o key \o " on the enum variant")

\* C11: create_response aborts, producing no descriptor, when the content
\* list is non-empty and the merged declaration-level annotation sets example
\* or examples; the error names `example` when that key is set and `examples`
\* otherwise, and suggests defining it on the enum variant. With an empty
\* content list or neither key set, that error is not raised.
C11_ExampleConflict ==
    derived # Pending =>
        LET conflict == /\ item.data = "Enum"
                        /\ TaggedVariants # {}
                        /\ (DeclSetsExample \/ DeclSetsExamples)
        IN  /\ conflict =>
                  /\ derived = ExampleConflictError(
                        IF DeclSetsExample THEN "example" ELSE "examples")
                  /\ implTokens = <<>>
            /\ ~conflict =>
                  /\ derived # ExampleConflictError("example")
                  /\ derived # ExampleConflictError("examples")
                  /\ get_type(item).ok => derived.ok

C11_Witness ==
    /\ item.data = "Enum"
    /\ Cardinality(TaggedVariants) = 2
    /\ ~DeclSetsExample
    /\ DeclSetsExamples
    /\ derived = ExampleConflictError("examples")

\* C12 as stated: a struct with exactly one unnamed field is Unnamed with the
\* field's type as body; a struct with more than one unnamed field is an
\* error; a struct with named fields is Named with an inline schema built
\* from the fields; a declaration with no fields is Unit and its descriptor
\* has no body; an enum is Enum; a union is an error.
C12_ShapeClassification ==
    derived # Pending =>
        LET shape == get_type(item)
            NoFields == \/ item.data = "StructUnit"
                        \/ /\ item.data \in {"StructNamed", "StructUnnamed"}
                           /\ Len(item.fields) = 0
        IN  /\ (item.data = "StructUnnamed" /\ Len(item.fields) = 1) =>
                  /\ shape = Ok(ShapeUnnamed(item.fields[1].ty,
                                             item.fields[1].to_schema))
                  /\ derived.ok
                  /\ derived.val.inner.val.value.response_type
                       = Some(PathTypeMediaType(item.fields[1].ty,
                                                item.fields[1].to_schema))
            /\ (item.data = "StructUnnamed" /\ Len(item.fields) > 1) =>
                  ~shape.ok /\ ~derived.ok
            /\ (item.data = "StructNamed" /\ Len(item.fields) > 0) =>
                  /\ shape = Ok(ShapeNamed(item.ident))
                  /\ derived.ok
                  /\ derived.val.inner.val.value.response_type
                       = Some(PathTypeInlineSchema(NamedStructSchema(item),
                                                   item.ident))
            /\ NoFields =>
                  /\ shape = Ok(ShapeUnit)
                  /\ derived.ok
                  /\ derived.val.inner.val.value.response_type = None
            /\ item.data = "Enum" => shape = Ok(ShapeEnum(item.ident))
            /\ item.data = "Union" => ~shape.ok /\ ~derived.ok

\* C12 as amended: as stated, but only a unit struct is Unit with no body; a
\* struct with an empty list of unnamed fields is an error like the one with
\* several, and a struct with named fields is Named however many it has.
C12_ShapeClassificationAmended ==
    derived # Pending =>
        LET shape == get_type(item)
        IN  /\ (item.data = "StructUnnamed" /\ Len(item.fields) = 1) =>
                  /\ shape = Ok(ShapeUnnamed(item.fields[1].ty,
                                             item.fields[1].to_schema))
                  /\ derived.ok
                  /\ derived.val.inner.val.value.response_type
                       = Some(PathTypeMediaType(item.fields[1].ty,
                                                item.fields[1].to_schema))
            /\ (item.data = "StructUnnamed" /\ Len(item.fields) # 1) =>
                  /\ ~shape.ok
                  /\ derived = shape
                  /\ implTokens = <<>>
            /\ item.data = "StructNamed" =>
                  /\ shape = Ok(ShapeNamed(item.ident))
                  /\ derived.ok
                  /\ derived.val.inner.val.value.response_type
                       = Some(PathTypeInlineSchema(NamedStructSchema(item),
                                                   item.ident))
            /\ item.data = "StructUnit" =>
                  /\ shape = Ok(ShapeUnit)
                  /\ derived.ok
                  /\ derived.val.inner.val.value.response_type = None
                  /\ Len(derived.val.inner.val.value.content) = 0
            /\ item.data = "Enum" => shape = Ok(ShapeEnum(item.ident))
            /\ item.data = "Union" =>
                  /\ ~shape.ok
                  /\ derived = shape
                  /\ implTokens = <<>>

C12_Witness ==
    /\ item.data = "StructUnnamed"
    /\ Len(item.fields) = 2
    /\ derived # Pending
    /\ ~derived.ok

(***************************************************************************)
(* Properties of ResponseTuple::to_tokens                                  *)
(***************************************************************************)
\* ResponseTuple::to_tokens has run on a Value descriptor with a body.
EmittedBody ==
    /\ parser = "ToTokens"
    /\ pc = "emitted"
    /\ response.inner.val.kind = "Value"
    /\ response.inner.val.value.response_type.some

\* The content calls of the body: the calls after new() and description(..)
\* that are not those of the content list, of the headers, or build().
PrimaryEntries ==
    SubSeq(tokens, 3,
           Len(tokens) - 1 - Len(Descriptor.content) - Len(Descriptor.headers))

\* C13: a Value descriptor with a body and no explicit content_type is
\* emitted with exactly one content call for the body, of content type
\* "application/json" for a Ref body and of the default content type of the
\* type for a MediaType or InlineSchema body (plain text for a string type,
\* JSON for a record type); with an explicit content_type the content types
\* of the body's calls are the declared ones, in declared order.
C13_DefaultContentType ==
    EmittedBody =>
        LET body == Descriptor.response_type.val
        IN  /\ \A i \in 1..Len(PrimaryEntries) : PrimaryEntries[i].op = "content"
            /\ ~Descriptor.content_type.some =>
                  /\ Len(PrimaryEntries) = 1
                  /\ body.kind = "Ref" =>
                        PrimaryEntries[1].content_type = "application/json"
                  /\ body.kind \in {"MediaType", "InlineSchema"} =>
                        PrimaryEntries[1].content_type = DefaultContentType(body.ty)
                  /\ (body.kind # "Ref" /\ body.ty = "String") =>
                        PrimaryEntries[1].content_type = "text/plain"
                  /\ (body.kind # "Ref" /\ body.ty \in {"User", "MyResponse"}) =>
                        PrimaryEntries[1].content_type = "application/json"
            /\ Descriptor.content_type.some =>
                  [i \in 1..Len(PrimaryEntries) |-> PrimaryEntries[i].content_type]
                    = Descriptor.content_type.val

C13_Witness ==
    /\ EmittedBody
    /\ Descriptor.response_type.val = PathTypeMediaType("String", FALSE)
    /\ Descriptor.content_type = Some(<<"application/json", "text/xml">>)
    /\ Len(PrimaryEntries) = 2
    /\ PrimaryEntries[2].content_type = "text/xml"

\* C14: a descriptor whose inner is a Ref is emitted as exactly one
\* instruction, the inline expansion when the referenced type is flagged
\* inline and the named reference of the type otherwise; no new(),
\* description, content, header or build instruction is emitted.
C14_RefSingleInstruction ==
    (parser = "ResponseTuple" /\ pc = "emitted"
        /\ response.inner.val.kind = "Ref") =>
        /\ Len(Emitted) = 1
        /\ Emitted[1].op = IF response.inner.val.ty.is_inline
                           THEN "inline_response"
                           ELSE "ref_from_response_name"
        /\ Emitted[1].ty = response.inner.val.ty.ty
        /\ \A i \in 1..Len(Emitted) :
              Emitted[i].op \notin {"new", "description", "content", "header",
                                   "build"}

C14_Witness ==
    /\ parser = "ResponseTuple"
    /\ pc = "emitted"
    /\ "status" \in parsedKeys
    /\ response.inner.val.kind = "Ref"
    /\ response.inner.val.ty.is_inline
    /\ Emitted = <<[op |-> "inline_response", ty |-> "Pet"]>>

(***************************************************************************)
(* Properties of the three occurrence parsers                              *)
(***************************************************************************)
\* The match of parser p has an arm for key k: with a malformed value the
\* arm, not the `_` arm, returns the error.
Accepts(p, k) ==
    IF p = "ResponseTuple"
    THEN TupleMatch(ResponseTupleDefault, k, BadVal) = Err(BAD_VALUE_MESSAGE)
    ELSE DeriveMatch(p, DeriveValueDefault, k, BadVal) = Err(BAD_VALUE_MESSAGE)

\* The keys the unknown-key message of parser p lists, and the message
ExpectedKeys(p) ==
    IF p = "ResponseTuple" THEN TupleExpectedKeys ELSE DeriveExpectedKeys(p)
UnknownKeyMessage(p, k) ==
    IF p = "ResponseTuple" THEN EXPECTED_ATTRIBUTE_MESSAGE
    ELSE DeriveUnknownMessage(p, k)

\* The cursor of the parse loop is at a key the match has no arm for.
UnknownKeyNext ==
    /\ pc = "loop"
    /\ input.kind = "attr"
    /\ ~Accepts(parser, input.key)

\* C15: in each of the three parsers an unknown key ends the parse with the
\* error whose message lists the valid keys of that parser: every key the
\* parser accepts is listed and no key it rejects is listed.
C15_UnknownKeyNamesValidKeys ==
    [][UnknownKeyNext =>
          /\ pc' = "err"
          /\ error' = UnknownKeyMessage(parser, input.key)
          /\ \A k \in AttrKeys :
                Accepts(parser, k) <=> Contains(ExpectedKeys(parser), k)
    ]_vars

\* C16: a failure ends the compilation of the declaration at the first error
\* and emits nothing: once an error is set the parse has stopped where the
\* error was met, with the descriptor and the cursor as they were, no step
\* follows it and the emitted tokens are empty; a derive that aborts extends
\* no tokens.
C16_FailFastNoOutput ==
    /\ [](error # "" => (pc = "err" /\ tokens = <<>>))
    /\ [](pc = "err" => error # "")
    /\ []((derived # Pending /\ ~derived.ok) => implTokens = <<>>)
    /\ [][/\ pc = "err" =>
                /\ pc' = "err"
                /\ error' = error
                /\ fuel' = fuel
                /\ response' = response
                /\ tokens' = tokens
          /\ (derived # Pending /\ ~derived.ok) =>
                /\ derived' = derived
                /\ implTokens' = implTokens
          /\ pc' = "err" =>
                /\ fuel' = fuel
                /\ response' = response
          /\ tokens' # <<>> => pc \in {"ok", "emitted"}]_vars

C16_Witness ==
    /\ parser = "ResponseTuple"
    /\ pc = "err"
    /\ parsedKeys = {"status", "description", "body"}
    /\ error = BAD_VALUE_MESSAGE
    /\ response.inner.val.value.description = "ok"
    /\ tokens = <<>>

\* C17: DeriveIntoResponsesValue::parse accepts `status = S` followed by a
\* comma-separated list of the five keys, the comma after `status = S`
\* being consumed like the comma between two other keys: the parse does not
\* fail at the comma that follows a well-formed `status = S`.
C17_CommaAfterStatus ==
    ~(/\ parser = "DeriveIntoResponsesValue"
      /\ pc = "err"
      /\ parsedKeys = {"status"}
      /\ response.status # EmptyStatus
      /\ input = Comma)

(***************************************************************************)
(* Properties of the content variants and of the descriptor handed on      *)
(***************************************************************************)
\* The k-th variant, in declaration order, whose first field carries a tag
TaggedVariant(k) ==
    item.variants[CHOOSE i \in TaggedVariants :
                     Cardinality({j \in TaggedVariants : j <= i}) = k]

\* The value of key `example` / `examples` in the last response attribute
\* of the variant that sets it
VariantExample(v) ==
    LET hits == {r \in 1..Len(v.responses) : v.responses[r].example.some}
    IN  IF hits = {} THEN None
        ELSE Some(v.responses[CHOOSE r \in hits : \A q \in hits : q <= r]
                    .example.val[1])
VariantExamples(v) ==
    LET hits == {r \in 1..Len(v.responses) : v.responses[r].examples.some}
    IN  IF hits = {} THEN None
        ELSE Some(v.responses[CHOOSE r \in hits : \A q \in hits : q <= r]
                    .examples.val[1])

\* C18: for an enum the content list of the descriptor has exactly one entry
\* for each variant whose payload (its first field) carries a content tag,
\* in declaration order, with the tag as content type, the payload type as
\* body and the variant's own example and examples; a variant with no field
\* or no tag adds no entry.
C18_ContentVariants ==
    (item.data = "Enum" /\ derived # Pending /\ derived.ok) =>
        LET content == derived.val.inner.val.value.content
        IN  /\ Len(content) = Cardinality(TaggedVariants)
            /\ \A k \in 1..Len(content) :
                  LET v == TaggedVariant(k)
                  IN  /\ content[k].content_type = v.fields[1].content.val
                      /\ content[k].body
                           = PathTypeMediaType(v.fields[1].ty,
                                               v.fields[1].to_schema)
                      /\ content[k].example = VariantExample(v)
                      /\ content[k].examples = VariantExamples(v)

C18_Witness ==
    /\ item.data = "Enum"
    /\ Len(item.variants) = 3
    /\ TaggedVariants = {1, 3}
    /\ derived # Pending
    /\ derived.ok
    /\ Len(derived.val.inner.val.value.content) = 2
    /\ derived.val.inner.val.value.content[1].content_type = "application/json"
    /\ derived.val.inner.val.value.content[1].example = Some("ex")
    /\ derived.val.inner.val.value.content[2].content_type
         = "application/vnd.admin+json"

\* C19: every descriptor handed to the emitter has inner set: a successful
\* ResponseTuple::parse returns inner as Some, the empty Value when the
\* occurrence is empty or holds only `status`, and create_response returns
\* inner as Some(Value); the unwrap of the emitter does not fail.
C19_InnerAlwaysSet ==
    /\ (parser = "ResponseTuple" /\ pc \in {"ok", "emitted"}) =>
          /\ response.inner.some
          /\ response.inner.val.kind \in {"Value", "Ref"}
          /\ parsedKeys \subseteq {"status"} =>
                response.inner = Some(ValueInner(ResponseValueDefault))
    /\ (derived # Pending /\ derived.ok) =>
          /\ derived.val.inner.some
          /\ derived.val.inner.val.kind = "Value"
          /\ Len(implTokens) = 1

C19_Witness ==
    /\ parser = "ResponseTuple"
    /\ pc = "emitted"
    /\ parsedKeys = {"status"}
    /\ response.inner = Some(ValueInner(ResponseValueDefault))
    /\ Len(Emitted) = 3

\* The tokens of the descriptor in the impl block the derive emits, and its
\* content calls
DerivedTokens == implTokens[1].response
DerivedContentCalls == SelectSeq(DerivedTokens, LAMBDA c : c.op = "content")

\* The content_type of the last response attribute of the declaration in
\* which the key is present
DeclContentType ==
    LET hits == {i \in 1..Len(item.responses) : item.responses[i].content_type.some}
    IN  IF hits = {} THEN None
        ELSE item.responses[CHOOSE i \in hits : \A j \in hits : j <= i].content_type

\* C20: for a Value descriptor with a body the number of content calls of
\* the body is the length of the content_type list when the key is present,
\* none for an explicitly empty list; in the merge an explicitly empty list
\* counts as set and replaces a list merged before it; the example and
\* examples of the descriptor are attached to every content call of the
\* body and are emitted nowhere when the descriptor has no body.
C20_ExplicitContentTypeList ==
    (derived # Pending /\ derived.ok) =>
        LET value == derived.val.inner.val.value
        IN  /\ value.content_type = DeclContentType
            /\ (value.response_type.some /\ value.content_type.some) =>
                  /\ Len(DerivedContentCalls) = Len(value.content_type.val)
                  /\ \A i \in 1..Len(DerivedContentCalls) :
                        DerivedContentCalls[i].content_type
                          = value.content_type.val[i]
            /\ value.response_type.some =>
                  \A i \in 1..Len(DerivedContentCalls) :
                     /\ DerivedContentCalls[i].content.example = value.example
                     /\ DerivedContentCalls[i].content.examples = value.examples
            /\ ~value.response_type.some =>
                  /\ Len(DerivedContentCalls) = Len(value.content)
                  /\ \A i \in 1..Len(DerivedContentCalls) :
                        /\ DerivedContentCalls[i].content.example
                             = value.content[i].example
                        /\ DerivedContentCalls[i].content.examples
                             = value.content[i].examples

C20_Witness ==
    /\ item.data = "StructUnnamed"
    /\ Len(item.responses) = 2
    /\ item.responses[1].content_type = Some(<<"application/json", "text/csv">>)
    /\ item.responses[2].content_type = Some(<<>>)
    /\ derived # Pending
    /\ derived.ok
    /\ derived.val.inner.val.value.response_type.some
    /\ derived.val.inner.val.value.content_type = Some(<<>>)
    /\ Len(DerivedContentCalls) = 0

\* The description of the last response attribute of the declaration in
\* which it is non-empty, "" when there is none
DeclDescription ==
    LET hits == {i \in 1..Len(item.responses) : item.responses[i].description # ""}
    IN  IF hits = {} THEN ""
        ELSE item.responses[CHOOSE i \in hits : \A j \in hits : j <= i].description

\* C21: the description of the descriptor create_response returns is the
\* description of the merged annotation when that is non-empty and the one
\* of the doc comment otherwise, also when the declaration has no response
\* attribute; the descriptor has a body only if its content list is empty.
C21_DescriptionAndBody ==
    (derived # Pending /\ derived.ok) =>
        LET value == derived.val.inner.val.value
        IN  /\ value.description = IF DeclDescription # "" THEN DeclDescription
                                   ELSE item.doc
            /\ Len(item.responses) = 0 => value.description = item.doc
            /\ value.response_type.some => Len(value.content) = 0
            /\ ~(value.response_type.some /\ Len(value.content) > 0)

C21_Witness ==
    /\ item.data = "Enum"
    /\ Cardinality(TaggedVariants) = 1
    /\ item.doc = "from doc comment"
    /\ Len(item.responses) = 2
    /\ item.responses[1].description = "from attribute"
    /\ item.responses[2].description = ""
    /\ derived # Pending
    /\ derived.ok
    /\ derived.val.inner.val.value.description = "from attribute"
    /\ derived.val.inner.val.value.response_type = None
    /\ Len(derived.val.inner.val.value.content) = 1

====
